---- MODULE Spec2Model ----
(***************************************************************************)
(* Producer/consumer orchestration of src/src/crawling.py (JobIndexing,    *)
(* ScrapingWorker) and the indexing step of src/src/indexing.py            *)
(* (index_job), as run under                                               *)
(*     async with JobIndexing(...) as indexer: await indexer.run()         *)
(* on one asyncio event loop.  A task runs from one suspension point to    *)
(* the next without interruption, so every action below is one such        *)
(* segment of a coroutine; index_job runs in a thread (asyncio.to_thread)  *)
(* and its two remote calls are separate steps.                            *)
(***************************************************************************)
EXTENDS Integers, Sequences, FiniteSets, TLC

\* Bounds of the explored inputs.
MaxFeed == 2          \* longest feed (records yielded by the feed scan)
MaxConcurrency == 2   \* largest conccurent_scraper_count
MaxCapacity == 1      \* largest positive data_buffer_size
MaxFaults == 2        \* most operations that raise in one run

\* The default data_buffer_size: asyncio.Queue treats maxsize <= 0 as unbounded.
Unbounded == -1

Producer == 0

\* The smallest id random.randint(20, 9999) gives a worker.
MinId == 20

VARIABLES
    conccurency_lvl,    \* JobIndexing.conccurency_lvl
    maxsize,            \* job_queue.maxsize (data_buffer_size)
    feed,               \* the references the feed scan will yield, in feed order
    index_store,        \* reference -> "absent" | "present" (before the run) | "added"
    add_calls,          \* reference -> indexing.add_json calls issued for it
    playwright_engine,  \* "none" | "started" | "stopped" | "stop_failed"
    browser,            \* "none" | "open" | "closed" | "close_failed"
    hrflow_client,      \* TRUE once the Hrflow client is constructed
    worker_pool,        \* JobIndexing.worker_pool: workers named by their task
    tasks,              \* JobIndexing.tasks
    pc,                 \* task -> position of its coroutine
    must_cancel,        \* task -> a cancellation was requested and not yet delivered
    context,            \* task -> browsing context of the task's worker
    id,                 \* task -> ScrapingWorker.id of the task's worker (0: none yet)
    job,                \* consumer -> initial_job, the record it holds (0: none)
    full_job,           \* consumer -> what job_details_collector returned for it
    thread,             \* consumer -> position of its index_job thread
    answer,             \* consumer -> what indexing.get answered its thread
    fed,                \* records the feed generator has yielded so far
    job_queue,          \* job_queue._queue: records waiting, oldest first
    unfinished_tasks,   \* job_queue._unfinished_tasks
    finished,           \* job_queue._finished (an Event) is set
    main,               \* position of the coroutine that owns the scope
    stop_idx,           \* __aexit__: index in worker_pool of the worker being stopped
    error,              \* the exception propagating to the caller of the scope
    rec,                \* record -> times it was dequeued and acknowledged
    dropped,            \* records dropped because job_details_collector returned None
    faults              \* operations that have raised so far

vars == << conccurency_lvl, maxsize, feed, index_store, add_calls, playwright_engine,
           browser, hrflow_client, worker_pool, tasks, pc, must_cancel, context, id,
           job, full_job, thread, answer, fed, job_queue, unfinished_tasks, finished, main,
           stop_idx, error, rec, dropped, faults >>

\* The configuration and the feed never change.
config == << conccurency_lvl, maxsize, feed >>
\* The resources __aenter__ acquires.
resources == << playwright_engine, browser, hrflow_client >>
\* The indexing service.
service == << index_store, add_calls >>
\* The queue and its counters.
queue == << job_queue, unfinished_tasks, finished >>
\* A consumer's locals and its thread.
locals == << job, full_job, thread, answer >>

Consumers == 1..conccurency_lvl
Tasks == 0..conccurency_lvl

\* Positions at which a task is over (asyncio: task.done()).
TaskDone == {"done", "raised", "cancelled"}

\* A feed names its references up to renaming: references are opaque keys that
\* the code only compares for equality, so the k-th new reference is called k.
Canonical(f) ==
    \A i \in 1..Len(f) :
        \/ f[i] = 1
        \/ \E j \in 1..(i - 1) : f[j] >= f[i] - 1

Feeds == { f \in UNION { [1..n -> 1..MaxFeed] : n \in 0..MaxFeed } : Canonical(f) }

Range(f) == { f[i] : i \in DOMAIN f }

Init ==
    /\ conccurency_lvl \in 1..MaxConcurrency
    /\ maxsize \in {Unbounded} \cup 1..MaxCapacity
    /\ feed \in Feeds
    /\ index_store \in [Range(feed) -> {"absent", "present"}]
    /\ add_calls = [r \in Range(feed) |-> 0]
    /\ playwright_engine = "none"
    /\ browser = "none"
    /\ hrflow_client = FALSE
    /\ worker_pool = << >>
    /\ tasks = << >>
    /\ pc = [t \in Tasks |-> "unborn"]
    /\ must_cancel = [t \in Tasks |-> FALSE]
    /\ context = [t \in Tasks |-> "none"]
    /\ id = [t \in Tasks |-> 0]
    /\ job = [c \in Consumers |-> 0]
    /\ full_job = [c \in Consumers |-> "none"]
    /\ thread = [c \in Consumers |-> "idle"]
    /\ answer = [c \in Consumers |-> "none"]
    /\ fed = 0
    /\ job_queue = << >>
    /\ unfinished_tasks = 0
    /\ finished = TRUE
    /\ main = "init"
    /\ stop_idx = 0
    /\ error = "none"
    /\ rec = [i \in 1..Len(feed) |-> [deq |-> 0, ack |-> 0]]
    /\ dropped = 0
    /\ faults = 0

----------------------------------------------------------------------------
(* The event loop *)

\* The coroutine that owns the scope is inside one segment: run has ended and
\* __aexit__ starts without an await in between, so no task runs here.
main_running == main \in {"run_returned", "run_raised"}

\* Task t may run its next segment: no cancellation is waiting for it.
runnable(t) == ~must_cancel[t] /\ ~main_running

\* Task.cancel() schedules the delivery with call_soon, so the deliveries requested
\* in a segment run, in the order of the requests, before anything awaited later
\* in that segment completes.
pending == { t \in Tasks : must_cancel[t] }

\* An awaited or remote operation raises instead of returning.
raises == faults < MaxFaults /\ faults' = faults + 1

----------------------------------------------------------------------------
(* asyncio.Queue, as JobIndexing uses it *)

\* full() without its test of maxsize <= 0.
full_ignoring_unbounded(q) == Len(q) >= maxsize

\* full() counting a queue of maxsize records as still having room.
full_off_by_one(q) == maxsize > 0 /\ Len(q) > maxsize

\* Queue.full(): never when maxsize <= 0, else when qsize() has reached maxsize.
full(q) == maxsize > 0 /\ Len(q) >= maxsize

\* put_nowait placing the record ahead of the waiting ones.
put_nowait_at_front(i) ==
    /\ job_queue' = << i >> \o job_queue
    /\ unfinished_tasks' = unfinished_tasks + 1
    /\ finished' = FALSE

\* Queue.put_nowait(): the record joins the queue and counts as unfinished.
put_nowait(i) ==
    /\ job_queue' = Append(job_queue, i)
    /\ unfinished_tasks' = unfinished_tasks + 1
    /\ finished' = FALSE

\* A get that reads the head without removing it.
get_without_removing(q) == q

\* Queue.get_nowait(): what is left of the queue once its head is handed out.
get_nowait(q) == Tail(q)

\* task_done never setting the event.
drained_never(unfinished) == FALSE

\* task_done setting the event on every acknowledgement.
drained_on_any_ack(unfinished) == TRUE

\* Queue.task_done() sets the _finished event when this count is what is left.
drained(unfinished) == unfinished = 0

\* Queue.join() waits only while something is unfinished.
join_waits(unfinished) == unfinished > 0

\* self.job_queue.task_done() at the end of an iteration of consumer c, which then
\* loops to job_queue.get(). A call with nothing unfinished raises ValueError.
task_done(c) ==
    IF unfinished_tasks <= 0
    THEN /\ pc' = [pc EXCEPT ![c] = "raised"]
         /\ UNCHANGED << unfinished_tasks, finished, main, job, full_job, rec >>
    ELSE /\ unfinished_tasks' = unfinished_tasks - 1
         /\ finished' = (finished \/ drained(unfinished_tasks - 1))
         /\ main' = IF main = "join_wait" /\ drained(unfinished_tasks - 1)
                    THEN "join_woken" ELSE main
         /\ rec' = [rec EXCEPT ![job[c]].ack = @ + 1]
         /\ job' = [job EXCEPT ![c] = 0]
         /\ full_job' = [full_job EXCEPT ![c] = "none"]
         /\ pc' = [pc EXCEPT ![c] = "get"]

\* Task.cancel() on every task of ts: a task that is over ignores it.
cancel(ts) == [t \in Tasks |-> must_cancel[t] \/ (t \in ts /\ pc[t] \notin TaskDone)]

----------------------------------------------------------------------------
(* JobIndexing.__aenter__ *)

\* async_playwright().start() returns or raises.
aenter_start ==
    /\ main = "init"
    /\ \/ /\ playwright_engine' = "started"
          /\ main' = "launch"
          /\ UNCHANGED << error, faults >>
       \/ /\ raises
          /\ main' = "enter_failed"
          /\ error' = "acquire"
          /\ UNCHANGED playwright_engine
    /\ UNCHANGED << config, id, service, browser, hrflow_client, worker_pool, tasks, pc,
                    must_cancel, context, locals, fed, queue, stop_idx, rec, dropped >>

\* chromium.launch() returns and the Hrflow client is constructed, or one of the two
\* raises.
aenter_launch ==
    /\ main = "launch"
    /\ \/ /\ browser' = "open"
          /\ hrflow_client' = TRUE
          /\ main' = "entered"
          /\ UNCHANGED << error, faults >>
       \/ /\ raises
          /\ main' = "enter_failed"
          /\ error' = "acquire"
          /\ UNCHANGED << browser, hrflow_client >>
       \/ /\ raises
          /\ browser' = "open"
          /\ main' = "enter_failed"
          /\ error' = "acquire"
          /\ UNCHANGED hrflow_client
    /\ UNCHANGED << config, id, service, playwright_engine, worker_pool, tasks, pc,
                    must_cancel, context, locals, fed, queue, stop_idx, rec, dropped >>

----------------------------------------------------------------------------
(* ScrapingWorker.__init__, awaited first by job_producer and job_consumer *)

\* browser.new_context() returns the worker's context or raises.
worker_new_context(t) ==
    /\ pc[t] = "new_context"
    /\ runnable(t)
    /\ \/ /\ context' = [context EXCEPT ![t] = "open"]
          /\ pc' = [pc EXCEPT ![t] = "new_page"]
          /\ UNCHANGED faults
       \/ /\ raises
          /\ pc' = [pc EXCEPT ![t] = "raised"]
          /\ UNCHANGED context
    /\ UNCHANGED << config, id, service, resources, worker_pool, tasks, must_cancel, locals,
                    fed, queue, main, stop_idx, error, rec, dropped >>

\* context.new_page() and stealth_async(page) return: the worker is constructed, its
\* task appends it to worker_pool and enters its loop. Or one of the two raises.
worker_ready(t) ==
    /\ pc[t] = "new_page"
    /\ runnable(t)
    /\ \/ /\ worker_pool' = Append(worker_pool, t)
          /\ pc' = [pc EXCEPT ![t] = IF t = Producer THEN "feed" ELSE "get"]
          /\ UNCHANGED faults
       \/ /\ raises
          /\ pc' = [pc EXCEPT ![t] = "raised"]
          /\ UNCHANGED worker_pool
    /\ UNCHANGED << config, id, service, resources, tasks, must_cancel, context, locals, fed,
                    queue, main, stop_idx, error, rec, dropped >>

----------------------------------------------------------------------------
(* JobIndexing.job_producer *)

\* The feed generator yields its next record, ends, or fails; a yielded record is
\* put on the queue at once unless the queue is full.
job_producer_next ==
    /\ pc[Producer] = "feed"
    /\ runnable(Producer)
    /\ \/ /\ fed < Len(feed)
          /\ fed' = fed + 1
          /\ UNCHANGED faults
          /\ IF full(job_queue)
             THEN /\ pc' = [pc EXCEPT ![Producer] = "put"]
                  /\ UNCHANGED queue
             ELSE /\ put_nowait(fed + 1)
                  /\ UNCHANGED pc
       \/ /\ fed = Len(feed)
          /\ pc' = [pc EXCEPT ![Producer] = "done"]
          /\ UNCHANGED << fed, queue, faults >>
       \/ /\ raises
          /\ pc' = [pc EXCEPT ![Producer] = "raised"]
          /\ UNCHANGED << fed, queue >>
    /\ UNCHANGED << config, id, service, resources, worker_pool, tasks, must_cancel, context,
                    locals, main, stop_idx, error, rec, dropped >>

\* The producer, suspended in put() on a full queue, finds room.
job_producer_put ==
    /\ pc[Producer] = "put"
    /\ runnable(Producer)
    /\ ~full(job_queue)
    /\ put_nowait(fed)
    /\ pc' = [pc EXCEPT ![Producer] = "feed"]
    /\ UNCHANGED << config, id, service, resources, worker_pool, tasks, must_cancel, context,
                    locals, fed, main, stop_idx, error, rec, dropped, faults >>

----------------------------------------------------------------------------
(* JobIndexing.job_consumer and index_job *)

\* job_queue.get() hands the oldest waiting record to consumer c, which starts
\* job_details_collector on it.
job_consumer_get(c) ==
    /\ pc[c] = "get"
    /\ runnable(c)
    /\ job_queue /= << >>
    /\ job' = [job EXCEPT ![c] = Head(job_queue)]
    /\ rec' = [rec EXCEPT ![Head(job_queue)].deq = @ + 1]
    /\ job_queue' = get_nowait(job_queue)
    /\ pc' = [pc EXCEPT ![c] = "fetch"]
    /\ UNCHANGED << config, id, service, resources, worker_pool, tasks, must_cancel, context,
                    full_job, thread, answer, fed, unfinished_tasks, finished, main,
                    stop_idx, error, dropped, faults >>

\* The consumer indexing whatever job_details_collector returned.
indexes_unchecked(result) == TRUE

\* `if full_job:` : index_job is called for these results of job_details_collector.
indexes(result) == result = "ok"

\* job_details_collector returns the enriched record ("ok") or None ("absent"), or
\* raises. index_job is started in a thread for an enriched record; otherwise the
\* record is acknowledged at once.
job_consumer_fetched(c) ==
    /\ pc[c] = "fetch"
    /\ runnable(c)
    /\ \/ /\ UNCHANGED faults
          /\ \E result \in {"ok", "absent"} :
                IF indexes(result)
                THEN /\ full_job' = [full_job EXCEPT ![c] = result]
                     /\ thread' = [thread EXCEPT ![c] = "get"]
                     /\ pc' = [pc EXCEPT ![c] = "index"]
                     /\ UNCHANGED << job, unfinished_tasks, finished, main, rec,
                                     dropped >>
                ELSE /\ task_done(c)
                     /\ dropped' = dropped + 1
                     /\ UNCHANGED thread
       \/ /\ raises
          /\ pc' = [pc EXCEPT ![c] = "raised"]
          /\ UNCHANGED << job, full_job, thread, unfinished_tasks, finished, main, rec,
                          dropped >>
    /\ UNCHANGED << config, id, service, resources, worker_pool, tasks, must_cancel, context,
                    answer, fed, job_queue, stop_idx, error >>

\* index_job with the `not` of its test dropped.
job_already_indexed_inverted(data) == data # "present"

\* `if not job_already_indexed:` on the "data" of the answer of indexing.get.
job_already_indexed(data) == data = "present"

\* index_job, first remote call: indexing.get answers with the stored job, if any,
\* or fails in transport.
index_job_get(c) ==
    /\ thread[c] = "get"
    /\ \/ LET data == IF index_store[feed[job[c]]] = "absent" THEN "absent" ELSE "present"
          IN  /\ UNCHANGED faults
              /\ answer' = [answer EXCEPT ![c] = data]
              /\ thread' = [thread EXCEPT ![c] =
                               IF job_already_indexed(data) THEN "ok" ELSE "add"]
       \/ /\ raises
          /\ thread' = [thread EXCEPT ![c] = "error"]
          /\ UNCHANGED answer
    /\ UNCHANGED << config, id, service, resources, worker_pool, tasks, pc, must_cancel,
                    context, job, full_job, fed, queue, main, stop_idx, error, rec,
                    dropped >>

\* index_job, second remote call: indexing.add_json stores the job or fails.
index_job_add(c) ==
    /\ thread[c] = "add"
    /\ add_calls' = [add_calls EXCEPT ![feed[job[c]]] = @ + 1]
    /\ \/ /\ index_store' = [index_store EXCEPT ![feed[job[c]]] =
                                IF @ = "absent" THEN "added" ELSE @]
          /\ thread' = [thread EXCEPT ![c] = "ok"]
          /\ UNCHANGED faults
       \/ /\ raises
          /\ thread' = [thread EXCEPT ![c] = "error"]
          /\ UNCHANGED index_store
    /\ UNCHANGED << config, id, resources, worker_pool, tasks, pc, must_cancel, context, job,
                    full_job, answer, fed, queue, main, stop_idx, error, rec, dropped >>

\* asyncio.to_thread returns in the consumer: the record is acknowledged, or the
\* thread's exception ends the consumer.
job_consumer_indexed(c) ==
    /\ pc[c] = "index"
    /\ runnable(c)
    /\ thread[c] \in {"ok", "error"}
    /\ thread' = [thread EXCEPT ![c] = "idle"]
    /\ answer' = [answer EXCEPT ![c] = "none"]
    /\ IF thread[c] = "ok"
       THEN task_done(c)
       ELSE /\ pc' = [pc EXCEPT ![c] = "raised"]
            /\ UNCHANGED << job, full_job, unfinished_tasks, finished, main, rec >>
    /\ UNCHANGED << config, id, service, resources, worker_pool, tasks, must_cancel, context,
                    fed, job_queue, stop_idx, error, dropped, faults >>

\* A requested cancellation reaches task t at the await it is suspended in; neither
\* coroutine catches CancelledError, so the task ends cancelled. A thread started by
\* the task runs on.
task_cancelled(t) ==
    /\ must_cancel[t]
    /\ ~main_running
    /\ \A u \in pending : t <= u
    /\ pc' = [pc EXCEPT ![t] = "cancelled"]
    /\ must_cancel' = [must_cancel EXCEPT ![t] = FALSE]
    /\ UNCHANGED << config, id, service, resources, worker_pool, tasks, context, locals, fed,
                    queue, main, stop_idx, error, rec, dropped, faults >>

----------------------------------------------------------------------------
(* JobIndexing.run *)

\* run creating one consumer task too few.
created_one_short == [k \in 1..conccurency_lvl |-> k - 1]

\* asyncio.create_task for job_producer and for job_consumer, once for each of
\* range(conccurency_lvl), in the order run records them in self.tasks.
created == [k \in 1..(conccurency_lvl + 1) |-> k - 1]

\* random.randint(MinId, 9999), once for the worker of each task. The code only
\* prints an id, so ids are named up to renaming: the k-th new value drawn is
\* called MinId + k - 1.
drawn_ids ==
    { f \in [Tasks -> MinId..(MinId + conccurency_lvl)] :
        \A t \in Tasks : f[t] = MinId \/ \E u \in 0..(t - 1) : f[u] >= f[t] - 1 }

\* The tasks are created and recorded; each starts constructing its worker (which
\* draws its id before its first await), and run suspends in `await producer_task`.
run_spawn ==
    /\ main = "entered"
    /\ id' \in drawn_ids
    /\ pc' = [t \in Tasks |-> IF t \in Range(created) THEN "new_context" ELSE "unborn"]
    /\ tasks' = created
    /\ main' = "await_producer"
    /\ UNCHANGED << config, service, resources, worker_pool, must_cancel, context, locals,
                    fed, queue, stop_idx, error, rec, dropped, faults >>

\* The last statements of run: every consumer task is asked to cancel, run returns.
run_cancel_consumers ==
    /\ must_cancel' = cancel(Consumers)
    /\ main' = "run_returned"

\* producer_task is over: its exception leaves run; otherwise run joins the queue,
\* which returns at once when nothing is unfinished.
run_producer_done ==
    /\ main = "await_producer"
    /\ pc[Producer] \in TaskDone
    /\ IF pc[Producer] # "done"
       THEN /\ main' = "run_raised"
            /\ error' = "producer"
            /\ UNCHANGED must_cancel
       ELSE /\ error' = error
            /\ IF join_waits(unfinished_tasks) /\ ~finished
               THEN /\ main' = "join_wait"
                    /\ UNCHANGED must_cancel
               ELSE run_cancel_consumers
    /\ UNCHANGED << config, id, service, resources, worker_pool, tasks, pc, context, locals,
                    fed, queue, stop_idx, rec, dropped, faults >>

\* The _finished event was set while run waited in join().
run_joined ==
    /\ main = "join_woken"
    /\ run_cancel_consumers
    /\ UNCHANGED << config, id, service, resources, worker_pool, tasks, pc, context, locals,
                    fed, queue, stop_idx, error, rec, dropped, faults >>

----------------------------------------------------------------------------
(* JobIndexing.__aexit__ *)

\* __aexit__ returning after the browser step without stopping the engine.
after_browser_skipping_engine == "exited"

\* `if self.playwright_engine:` after the browser step.
after_browser == IF playwright_engine # "none" THEN "stop_engine" ELSE "exited"

\* `if self.browser:` after the loop over worker_pool.
after_workers == IF browser # "none" THEN "close_browser" ELSE after_browser

\* __aexit__ going to the browser without the loop over worker_pool.
after_cancel_without_workers == after_workers

\* The loop over worker_pool follows the cancellation of the tasks.
after_cancel == IF worker_pool # << >> THEN "stop_workers" ELSE after_workers

\* Leaving the scope, normally or with run's exception: every task that is not
\* cancelled is asked to cancel, then the first release is awaited.
aexit_cancel ==
    /\ main \in {"run_returned", "run_raised"}
    /\ must_cancel' = cancel(Range(tasks))
    /\ main' = after_cancel
    /\ stop_idx' = 1
    /\ UNCHANGED << config, id, service, resources, worker_pool, tasks, pc, context, locals,
                    fed, queue, error, rec, dropped, faults >>

\* worker.stop() of the worker the loop is at returns or raises.
aexit_stop_worker ==
    /\ main = "stop_workers"
    /\ pending = {}
    /\ \/ /\ context' = [context EXCEPT ![worker_pool[stop_idx]] = "closed"]
          /\ IF stop_idx < Len(worker_pool)
             THEN /\ stop_idx' = stop_idx + 1
                  /\ UNCHANGED main
             ELSE /\ main' = after_workers
                  /\ UNCHANGED stop_idx
          /\ UNCHANGED << error, faults >>
       \/ /\ raises
          /\ context' = [context EXCEPT ![worker_pool[stop_idx]] = "close_failed"]
          /\ main' = "exit_failed"
          /\ error' = "teardown"
          /\ UNCHANGED stop_idx
    /\ UNCHANGED << config, id, service, resources, worker_pool, tasks, pc, must_cancel,
                    locals, fed, queue, rec, dropped >>

\* browser.close() returns or raises.
aexit_close_browser ==
    /\ main = "close_browser"
    /\ pending = {}
    /\ \/ /\ browser' = "closed"
          /\ main' = after_browser
          /\ UNCHANGED << error, faults >>
       \/ /\ raises
          /\ browser' = "close_failed"
          /\ main' = "exit_failed"
          /\ error' = "teardown"
    /\ UNCHANGED << config, id, service, playwright_engine, hrflow_client, worker_pool, tasks,
                    pc, must_cancel, context, locals, fed, queue, stop_idx, rec, dropped >>

\* playwright_engine.stop() returns or raises.
aexit_stop_engine ==
    /\ main = "stop_engine"
    /\ pending = {}
    /\ \/ /\ playwright_engine' = "stopped"
          /\ main' = "exited"
          /\ UNCHANGED << error, faults >>
       \/ /\ raises
          /\ playwright_engine' = "stop_failed"
          /\ main' = "exit_failed"
          /\ error' = "teardown"
    /\ UNCHANGED << config, id, service, browser, hrflow_client, worker_pool, tasks, pc,
                    must_cancel, context, locals, fed, queue, stop_idx, rec, dropped >>

----------------------------------------------------------------------------
(* The program *)

Next ==
    \/ aenter_start
    \/ aenter_launch
    \/ run_spawn
    \/ run_producer_done
    \/ run_joined
    \/ job_producer_next
    \/ job_producer_put
    \/ aexit_cancel
    \/ aexit_stop_worker
    \/ aexit_close_browser
    \/ aexit_stop_engine
    \/ \E t \in Tasks : worker_new_context(t)
    \/ \E t \in Tasks : worker_ready(t)
    \/ \E t \in Tasks : task_cancelled(t)
    \/ \E c \in Consumers : job_consumer_get(c)
    \/ \E c \in Consumers : job_consumer_fetched(c)
    \/ \E c \in Consumers : index_job_get(c)
    \/ \E c \in Consumers : index_job_add(c)
    \/ \E c \in Consumers : job_consumer_indexed(c)

Spec == Init /\ [][Next]_vars

\* The event loop runs a task that is ready and an awaited operation completes: the
\* program does not stop while one of its steps can happen.
FairSpec == Spec /\ WF_vars(Next)

----------------------------------------------------------------------------
(* Properties *)

RECURSIVE Acks(_)
\* Acknowledgements of the records 1..n.
Acks(n) == IF n = 0 THEN 0 ELSE rec[n].ack + Acks(n - 1)

\* Records the producer has put on the queue: all it was given, but the one it is
\* suspended with in put().
Enqueued == IF pc[Producer] = "put" THEN fed - 1 ELSE fed

\* Enqueued and not yet acknowledged.
Outstanding == Enqueued - Acks(Len(feed))

\* Records a consumer has dequeued and not acknowledged.
Held == { job[c] : c \in Consumers } \ {0}

\* run is past `await self.job_queue.join()`.
DrainComplete == pc[Producer] = "done" /\ main \notin {"await_producer", "join_wait"}

Distinct(f) == \A i, j \in DOMAIN f : f[i] = f[j] => i = j

\* C1: every record the producer has enqueued is dequeued at most once, held by at
\* most one consumer and acknowledged at most once, only after it was dequeued; and
\* once the drain wait of run is over, each has been dequeued and acknowledged
\* exactly once.
C1_ExactlyOnce ==
    /\ \A i \in DOMAIN rec : rec[i].deq <= 1 /\ rec[i].ack <= rec[i].deq
    /\ \A c, d \in Consumers : (c # d /\ job[c] # 0) => job[c] # job[d]
    /\ \A i \in DOMAIN rec : rec[i].deq = 1 => i <= Enqueued
    /\ DrainComplete =>
          /\ Enqueued = Len(feed)
          /\ \A i \in 1..Enqueued : rec[i].deq = 1 /\ rec[i].ack = 1

\* Two consumers have shared two records and the drain wait is over.
C1_Witness ==
    /\ main = "run_returned"
    /\ conccurency_lvl = 2
    /\ Len(feed) = 2
    /\ \A c \in Consumers : pc[c] = "get"
    /\ \A i \in DOMAIN rec : rec[i].ack = 1

\* C2: the acknowledgements never exceed the enqueues, the queue's counter is the
\* outstanding count, and the drain wait of run is over only when the producer has
\* finished, the outstanding count is zero and no consumer holds a record.
C2_DrainOnlyAtZero ==
    /\ Outstanding >= 0
    /\ unfinished_tasks = Outstanding
    /\ (main \in {"join_woken", "run_returned"} /\ pc[Producer] = "done") =>
          /\ Outstanding = 0
          /\ job_queue = << >>
          /\ \A c \in Consumers : job[c] = 0

\* run waits in join while one record is acknowledged and another is still held.
C2_Witness ==
    /\ main = "join_wait"
    /\ Acks(Len(feed)) = 1
    /\ Held # {}

\* C3 as claimed: with a capacity C > 0 the outstanding count never exceeds C, and
\* the producer is suspended in put only when it has reached C.
C3_OutstandingBounded ==
    maxsize > 0 =>
        /\ unfinished_tasks <= maxsize
        /\ pc[Producer] = "put" => unfinished_tasks >= maxsize

\* C3, amended: with a capacity C > 0 the producer suspends in put exactly when C
\* records are waiting in the queue (enqueued, not yet dequeued), it enqueues again
\* only once a dequeue has left fewer than C waiting, and the number waiting never
\* exceeds C.
C3_WaitingBounded ==
    [][ /\ (maxsize > 0 => Len(job_queue') <= maxsize)
        /\ (pc[Producer] = "feed" /\ pc'[Producer] = "put") =>
               (maxsize > 0 /\ Len(job_queue) = maxsize)
        /\ (pc[Producer] = "feed" /\ fed' = fed + 1 /\ pc'[Producer] = "feed") =>
               ((maxsize > 0 => Len(job_queue) < maxsize)
                   /\ job_queue' = Append(job_queue, fed'))
        /\ (pc[Producer] = "put" /\ pc'[Producer] = "feed") =>
               (Len(job_queue) < maxsize /\ job_queue' = Append(job_queue, fed))
      ]_vars

\* The producer is suspended in put with a record, the queue holding maxsize.
C3_Witness ==
    /\ maxsize > 0
    /\ pc[Producer] = "put"
    /\ Len(job_queue) = maxsize
    /\ fed = 2

\* C4: when nothing raises, a reference receives at most one add call, and exactly
\* one once the drain wait is over if it was not indexed before and no record was
\* dropped.
C4_OneAddPerReference ==
    faults = 0 =>
        /\ \A r \in DOMAIN add_calls : add_calls[r] <= 1
        /\ (DrainComplete /\ dropped = 0) =>
               \A r \in DOMAIN add_calls :
                   index_store[r] # "present" => add_calls[r] = 1

\* C5: when run returns, every consumer task has ended cancelled and no error
\* reaches the caller.
C5_ConsumersStopped ==
    main = "run_returned" =>
        /\ \A c \in Consumers : pc[c] = "cancelled"
        /\ error = "none"

\* C6: for a feed of k records with distinct references, none indexed before and
\* none dropped, run is past its drain wait with exactly one add call per reference,
\* each stored; and run never waits in join for an empty feed.
C6_OneAddPerRecord ==
    /\ (/\ DrainComplete
        /\ Distinct(feed)
        /\ dropped = 0
        /\ \A r \in DOMAIN index_store : index_store[r] # "present") =>
           /\ \A r \in DOMAIN add_calls : add_calls[r] = 1 /\ index_store[r] = "added"
           /\ Cardinality(DOMAIN add_calls) = Len(feed)
    /\ Len(feed) = 0 => (main # "join_wait" /\ DOMAIN add_calls = {})

\* Two consumers have indexed two records of distinct references and run returned.
C6_Witness ==
    /\ main = "run_returned"
    /\ conccurency_lvl = 2
    /\ feed = << 1, 2 >>
    /\ \A r \in {1, 2} : add_calls[r] = 1 /\ index_store[r] = "added"

\* C7: a record is acknowledged once its iteration is over and not before, whatever
\* became of it; index_job runs only for an enriched record, so a dropped record
\* gets no get or add call; an add call is issued only by a thread whose get
\* answered absent for an enriched record; and the step that drops a record or
\* skips a duplicate acknowledges it and returns the consumer to its dequeue.
C7_EveryOutcomeAcknowledged ==
    /\ [](/\ \A i \in DOMAIN rec :
                /\ rec[i].ack <= 1
                /\ rec[i].deq = 1 => (rec[i].ack = 1 <=> i \notin Held)
          /\ \A c \in Consumers :
                /\ thread[c] # "idle" => full_job[c] = "ok"
                /\ thread[c] = "add" => answer[c] = "absent")
    /\ [][ /\ \A r \in DOMAIN add_calls :
                 add_calls'[r] # add_calls[r] =>
                     \E c \in Consumers :
                         /\ thread[c] = "add" /\ feed[job[c]] = r
                         /\ answer[c] = "absent" /\ full_job[c] = "ok"
           /\ dropped' # dropped =>
                 \E c \in Consumers :
                     /\ pc[c] = "fetch" /\ pc'[c] = "get" /\ thread[c] = "idle"
                     /\ rec'[job[c]].ack = 1
                     /\ unfinished_tasks' = unfinished_tasks - 1
                     /\ add_calls' = add_calls
           /\ \A c \in Consumers :
                 (pc[c] = "index" /\ pc'[c] # "index" /\ answer[c] = "present") =>
                     \/ pc'[c] = "cancelled"
                     \/ /\ pc'[c] = "get"
                        /\ rec'[job[c]].ack = 1
                        /\ unfinished_tasks' = unfinished_tasks - 1
                        /\ add_calls' = add_calls
         ]_vars

\* One record was dropped, the other was a duplicate of an indexed job, both are
\* acknowledged and the drain wait is over.
C7_Witness ==
    /\ DrainComplete
    /\ Len(feed) = 2
    /\ dropped = 1
    /\ \A r \in DOMAIN add_calls : add_calls[r] = 0
    /\ \E r \in DOMAIN index_store : index_store[r] = "present"
    /\ \A i \in DOMAIN rec : rec[i].ack = 1
    /\ faults = 0

\* Release steps of __aexit__ that have been performed.
Stopped(w) == context[w] = "closed"
CancelRequested == \A k \in DOMAIN tasks : must_cancel[tasks[k]] \/ pc[tasks[k]] \in TaskDone

\* C8: __aexit__ releases in the order cancel, workers, browser, engine: no worker is
\* stopped before every task was asked to cancel, the browser is closed only after
\* every worker of the pool was stopped, the engine is stopped only after the browser
\* was closed, and the scope is left normally only with all four done.
C8_ReleaseOrder ==
    /\ (\E w \in Range(worker_pool) : context[w] \in {"closed", "close_failed"}) =>
           CancelRequested
    /\ main \in {"stop_workers", "close_browser", "stop_engine", "exited"} =>
           CancelRequested
    /\ (browser \in {"closed", "close_failed"} \/ main = "close_browser") =>
           \A w \in Range(worker_pool) : Stopped(w)
    /\ (playwright_engine \in {"stopped", "stop_failed"} \/ main = "stop_engine") =>
           browser = "closed"
    /\ main = "exited" =>
           /\ \A w \in Range(worker_pool) : Stopped(w)
           /\ browser = "closed"
           /\ playwright_engine = "stopped"

\* The scope was left with three workers stopped, the browser closed and the engine
\* stopped.
C8_Witness ==
    /\ main = "exited"
    /\ Len(worker_pool) = 3
    /\ \A w \in Range(worker_pool) : Stopped(w)
    /\ browser = "closed"
    /\ playwright_engine = "stopped"

\* C9: when a release step of __aexit__ has raised, every release step has still
\* been attempted: each worker of the pool, the browser and the engine.
C9_BestEffortTeardown ==
    main = "exit_failed" =>
        /\ \A w \in Range(worker_pool) : context[w] \in {"closed", "close_failed"}
        /\ browser \in {"closed", "close_failed"}
        /\ playwright_engine \in {"stopped", "stop_failed"}

\* C10: when __aenter__ has raised, nothing it acquired is left unreleased.
C10_AcquisitionReleased ==
    main = "enter_failed" =>
        /\ playwright_engine # "started"
        /\ browser # "open"

\* C11: when the producer task has raised and the scope is left with no release
\* step raising, its error is the one that reaches the caller, and by then every
\* task was asked to cancel and is over, every pooled worker is stopped, the browser
\* is closed and the engine is stopped; from the moment run raises until the scope
\* is left the error is never dropped.
C11_ReleasedBeforeReport ==
    /\ (pc[Producer] = "raised" /\ main = "exited") =>
           /\ error = "producer"
           /\ \A k \in DOMAIN tasks : pc[tasks[k]] \in TaskDone
           /\ \A w \in Range(worker_pool) : Stopped(w)
           /\ browser = "closed"
           /\ playwright_engine = "stopped"
    /\ (pc[Producer] = "raised" /\ main \notin {"await_producer", "exit_failed"}) =>
           error = "producer"
    /\ error = "producer" => pc[Producer] \in {"raised", "cancelled"}

\* The feed scan raised after its first record, and the scope was left with the
\* producer's error after its workers, the browser and the engine were released.
C11_Witness ==
    /\ main = "exited"
    /\ error = "producer"
    /\ fed = 1
    /\ Len(feed) = 2
    /\ Len(worker_pool) >= 2
    /\ playwright_engine = "stopped"

\* C12: when the producer task has raised and run has ended, every record enqueued
\* before the failure is acknowledged and every consumer was asked to cancel by run.
C12_DrainAfterProducerError ==
    (pc[Producer] = "raised" /\ main = "run_raised") =>
        /\ unfinished_tasks = 0
        /\ \A i \in 1..Enqueued : rec[i].ack = 1
        /\ \A c \in Consumers : must_cancel[c] \/ pc[c] \in TaskDone

\* C13: when a consumer has ended with an error while it held a dequeued record,
\* run is never left in the drain wait with no step of the program able to happen.
C13_DrainWaitNotStuck ==
    (main = "join_wait" /\ \E c \in Consumers : pc[c] = "raised" /\ job[c] # 0) =>
        ENABLED Next

\* run has created its tasks.
Spawned == main \notin {"init", "launch", "entered", "enter_failed"}

\* C14: no task exists before run; from then on self.tasks holds the producer task
\* once and exactly conccurency_lvl consumer tasks, all distinct, and exactly that
\* many consumers have started; every task has constructed at most one worker, so
\* the pool holds each task's worker at most once and only workers of these tasks; a
\* browsing context belongs to the task that created it, and a consumer holds a
\* record only once its own worker is in the pool.
C14_OneProducerNConsumers ==
    /\ ~Spawned => (tasks = << >> /\ \A t \in Tasks : pc[t] = "unborn")
    /\ Spawned =>
          /\ Len(tasks) = conccurency_lvl + 1
          /\ Distinct(tasks)
          /\ Cardinality({k \in DOMAIN tasks : tasks[k] = Producer}) = 1
          /\ Cardinality({k \in DOMAIN tasks : tasks[k] \in Consumers}) = conccurency_lvl
          /\ Cardinality({c \in Consumers : pc[c] # "unborn"}) = conccurency_lvl
          /\ pc[Producer] # "unborn"
    /\ Distinct(worker_pool)
    /\ Range(worker_pool) \subseteq Range(tasks)
    /\ \A t \in Tasks : context[t] # "none" => t \in Range(tasks)
    /\ \A c \in Consumers : job[c] # 0 => c \in Range(worker_pool)
    /\ Cardinality(Held) <= conccurency_lvl

\* Two consumers are fetching the details of two records at the same time, each
\* with its own worker, next to the producer's.
C14_Witness ==
    /\ conccurency_lvl = 2
    /\ Len(worker_pool) = 3
    /\ \A c \in Consumers : pc[c] = "fetch"
    /\ Cardinality(Held) = 2

\* C15: a consumer is never asked to cancel while it is in a detail fetch or an
\* indexing call, holding a record it dequeued and has not acknowledged.
C15_NotCancelledInFlight ==
    \A c \in Consumers : must_cancel[c] => (pc[c] \notin {"fetch", "index"} /\ job[c] = 0)

\* Records that have been handed out by job_queue.get().
Dequeued == Cardinality({i \in DOMAIN rec : rec[i].deq > 0})

\* C16: records are numbered in feed order. The records that were dequeued are the
\* first ones enqueued, the queue holds the following ones in feed order up to the
\* last enqueued, every enqueue appends the next record of the feed and every
\* dequeue hands out the record enqueued right after the last one handed out,
\* whichever consumer takes it.
C16_Fifo ==
    /\ [](/\ job_queue = [k \in 1..(Enqueued - Dequeued) |-> Dequeued + k]
          /\ \A i \in DOMAIN rec : rec[i].deq > 0 => i <= Dequeued)
    /\ [][ /\ Len(job_queue') > Len(job_queue) =>
                 job_queue' = Append(job_queue, Enqueued + 1)
           /\ \A c \in Consumers :
                 (job'[c] # job[c] /\ job'[c] # 0) =>
                     /\ job'[c] = Dequeued + 1
                     /\ job'[c] = Head(job_queue)
                     /\ job_queue' = Tail(job_queue)
         ]_vars

\* The record enqueued second is acknowledged while the one enqueued first, dequeued
\* before it, is still held.
C16_Witness ==
    /\ Len(feed) = 2
    /\ rec[1].deq = 1
    /\ rec[1].ack = 0
    /\ rec[2].ack = 1

\* C17: even when nothing raises, once __aexit__ is at its loop over worker_pool
\* every worker whose context was created is in the pool; the pool never holds more
\* than 1 + conccurency_lvl workers; and when the scope has been left, every context
\* that was created is closed.
C17_PoolTracksEveryWorker ==
    faults = 0 =>
        /\ main \in {"stop_workers", "close_browser", "stop_engine", "exited"} =>
               \A t \in Tasks : context[t] # "none" => t \in Range(worker_pool)
        /\ Len(worker_pool) <= 1 + conccurency_lvl
        /\ main = "exited" => \A t \in Tasks : context[t] \in {"none", "closed"}

\* C18: any two distinct workers of the pool have different ids.
C18_UniqueIds ==
    \A v, w \in Range(worker_pool) : v # w => id[v] # id[w]

\* run has returned after the producer finished, with nothing outstanding and every
\* consumer asked to cancel.
RunReturned ==
    /\ main = "run_returned"
    /\ pc[Producer] = "done"
    /\ fed = Len(feed)
    /\ unfinished_tasks = 0
    /\ \A c \in Consumers : must_cancel[c] \/ pc[c] \in TaskDone

\* C19: while nothing has raised, run is never waiting for the producer or for the
\* drain with no step of the program able to happen, whatever the capacity; and in
\* every fair execution in which nothing raises, run eventually returns after the
\* producer has finished, the outstanding count has reached zero and every consumer
\* was asked to cancel.
C19_Terminates ==
    /\ []((faults = 0 /\ main \in {"await_producer", "join_wait", "join_woken"}) =>
             ENABLED Next)
    /\ <>(faults > 0 \/ RunReturned)

\* run returned, nothing having raised, after the producer had been suspended on a
\* full queue: two records went through a queue of capacity 1.
C19_Witness ==
    /\ RunReturned
    /\ faults = 0
    /\ maxsize = 1
    /\ Len(feed) = 2
    /\ conccurency_lvl = 2

\* Consumers that hold a record they dequeued and have not acknowledged.
InFlight == { c \in Consumers : job[c] # 0 }

\* C20: the outstanding count is the records waiting in the queue plus the records
\* in flight; each consumer has at most one record in flight and no record is in
\* flight at two consumers, so at most conccurency_lvl are; with a capacity C > 0 at
\* most C records wait, so at most C + conccurency_lvl are outstanding; and with the
\* default capacity the producer is never suspended in put.
C20_QueueBounds ==
    /\ unfinished_tasks = Len(job_queue) + Cardinality(InFlight)
    /\ Cardinality(InFlight) <= conccurency_lvl
    /\ Cardinality(Held) = Cardinality(InFlight)
    /\ maxsize > 0 =>
          /\ Len(job_queue) <= maxsize
          /\ unfinished_tasks <= maxsize + conccurency_lvl
    /\ maxsize = Unbounded => pc[Producer] # "put"

\* With capacity 1 and one consumer, one record waits while another is in flight:
\* the outstanding count is at its bound C + conccurency_lvl.
C20_Witness ==
    /\ maxsize = 1
    /\ conccurency_lvl = 1
    /\ Len(job_queue) = 1
    /\ Cardinality(InFlight) = 1
    /\ unfinished_tasks = 2
====
